---- MODULE Spec2Model ----
(***************************************************************************)
(* The Mindways Model 3 phantom calibration run                            *)
(* (mindways_model3_phantom_calibration.py) and the helpers of             *)
(* ogo_helper.py it calls.                                                 *)
(*                                                                         *)
(* Numbers.  The script computes in IEEE doubles.  A number is modelled as *)
(* an exact fraction [num, den] in lowest terms with den > 0; den = 0      *)
(* stands for the three non-finite doubles: num = 1 is +inf, num = -1 is   *)
(* -inf and num = 0 is NaN.  Rounding and the sign of zero are not         *)
(* modelled (sigma_ct = slope - 0.2174 yields +0.0 when it is zero).       *)
(*                                                                         *)
(* Strings are sequences of one-character strings, so that splitext can    *)
(* look at each character.                                                 *)
(***************************************************************************)
EXTENDS Integers, Sequences, FiniteSets, TLC

(***************************************************************************)
(* Arithmetic on doubles                                                   *)
(***************************************************************************)
Abs(i) == IF i < 0 THEN -i ELSE i

Sign(i) == IF i < 0 THEN -1 ELSE IF i = 0 THEN 0 ELSE 1

RECURSIVE GCD(_, _)
GCD(a, b) == IF b = 0 THEN a ELSE GCD(b, a % b)

\* the fraction n/d (d # 0) in lowest terms with a positive denominator
Norm(n, d) ==
    LET g == GCD(Abs(n), Abs(d))
        s == IF d < 0 THEN -1 ELSE 1
    IN  [num |-> s * (n \div g), den |-> s * (d \div g)]

Int2F(i) == [num |-> i, den |-> 1]

NaN    == [num |-> 0, den |-> 0]
PosInf == [num |-> 1, den |-> 0]
NegInf == [num |-> -1, den |-> 0]

IsFinite(a) == a.den # 0
IsNaN(a)    == a = NaN
IsZero(a)   == a.den # 0 /\ a.num = 0

FNeg(a) == [num |-> -a.num, den |-> a.den]

FAdd(a, b) ==
    IF IsNaN(a) \/ IsNaN(b) THEN NaN
    ELSE IF ~IsFinite(a) /\ ~IsFinite(b) THEN (IF a = b THEN a ELSE NaN)
    ELSE IF ~IsFinite(a) THEN a
    ELSE IF ~IsFinite(b) THEN b
    ELSE LET g == GCD(a.den, b.den)
         IN  Norm(a.num * (b.den \div g) + b.num * (a.den \div g),
                  (a.den \div g) * b.den)

FSub(a, b) == FAdd(a, FNeg(b))

FMul(a, b) ==
    IF IsNaN(a) \/ IsNaN(b) THEN NaN
    ELSE IF ~IsFinite(a) \/ ~IsFinite(b)
         THEN (IF IsZero(a) \/ IsZero(b) THEN NaN
               ELSE [num |-> Sign(a.num) * Sign(b.num), den |-> 0])
    ELSE LET g1 == GCD(Abs(a.num), b.den)
             g2 == GCD(Abs(b.num), a.den)
         IN  Norm((a.num \div g1) * (b.num \div g2),
                  (a.den \div g2) * (b.den \div g1))

\* numpy float64 division: x/0 is +-inf, 0/0 is NaN, no exception is raised
FDiv(a, b) ==
    IF IsNaN(a) \/ IsNaN(b) THEN NaN
    ELSE IF ~IsFinite(a) /\ ~IsFinite(b) THEN NaN
    ELSE IF ~IsFinite(a) THEN [num |-> a.num * (IF b.num < 0 THEN -1 ELSE 1), den |-> 0]
    ELSE IF ~IsFinite(b) THEN Int2F(0)
    ELSE IF b.num = 0 THEN (IF a.num = 0 THEN NaN ELSE [num |-> Sign(a.num), den |-> 0])
    ELSE FMul(a, Norm(b.den, b.num))

RECURSIVE FSum(_)
FSum(s) == IF s = <<>> THEN Int2F(0) ELSE FAdd(Head(s), FSum(Tail(s)))

\* numpy.mean of a non-empty list
FMean(s) == FDiv(FSum(s), Int2F(Len(s)))

(***************************************************************************)
(* Strings and paths                                                       *)
(***************************************************************************)
\* str.rfind: the last position of character c in s (1-based), 0 when absent
rfind(s, c) ==
    LET hits == {i \in 1..Len(s) : s[i] = c}
    IN  IF hits = {} THEN 0 ELSE CHOOSE i \in hits : \A j \in hits : j <= i

\* an extension taken from the last dot even when only dots precede it
splitext_ext_AnyLastDot(p) ==
    LET sepIndex == rfind(p, "/")
        dotIndex == rfind(p, ".")
    IN  IF dotIndex > sepIndex THEN SubSeq(p, dotIndex, Len(p)) ELSE <<>>

\* os.path.splitext(p)[1]: the extension starts at the last dot of the last
\* path component, unless that component has only dots before it
splitext_ext(p) ==
    LET sepIndex == rfind(p, "/")
        dotIndex == rfind(p, ".")
    IN  IF dotIndex > sepIndex
           /\ \E filenameIndex \in (sepIndex + 1)..(dotIndex - 1) : p[filenameIndex] # "."
        THEN SubSeq(p, dotIndex, Len(p))
        ELSE <<>>

ExtNii   == <<".", "n", "i", "i">>
ExtNifti == <<".", "n", "i", "f", "t", "i">>

\* the paths of the modelled file system
DirDcm     == <<"d", "c", "m">>
DirDotNii  == <<"d", ".", "n", "i", "i">>
FileNii    == <<"s", ".", "n", "i", "i">>
FileNifti  == <<"s", ".", "n", "i", "f", "t", "i">>
FileTxt    == <<"s", ".", "t", "x", "t">>
FileHidden == <<".", "n", "i", "i">>
FileInDot  == <<"a", ".", "n", "i", "i", "/", "s">>
FileGz     == <<"s", ".", "n", "i", "i", ".", "g", "z">>
FileAbs    == <<"/", "p", "/", "s", ".", "n", "i", "i">>
MaskAbs    == <<"/", "m", "/", "m", ".", "n", "i", "i">>

Directories == {DirDcm, DirDotNii}

\* os.path.isdir
isdir(p) == p \in Directories

\* os.path.basename
basename(p) == SubSeq(p, rfind(p, "/") + 1, Len(p))

RECURSIVE rstrip_sep(_)
rstrip_sep(p) ==
    IF p # <<>> /\ p[Len(p)] = "/" THEN rstrip_sep(SubSeq(p, 1, Len(p) - 1)) ELSE p

\* os.path.dirname: up to the last separator, trailing separators removed
\* unless the head is made of separators only
dirname(p) ==
    LET head == SubSeq(p, 1, rfind(p, "/"))
    IN  IF head # <<>> /\ \E i \in 1..Len(head) : head[i] # "/"
        THEN rstrip_sep(head)
        ELSE head

\* the working directories the script can be started in
LaunchDirs == { <<"/", "w">>, <<"/", "v">> }

\* os.path.isabs
isabs(p) == p # <<>> /\ p[1] = "/"

\* str.replace: every non-overlapping occurrence of old, left to right
RECURSIVE replace(_, _, _)
replace(s, old, new) ==
    IF Len(s) < Len(old) THEN s
    ELSE IF SubSeq(s, 1, Len(old)) = old
         THEN new \o replace(SubSeq(s, Len(old) + 1, Len(s)), old, new)
         ELSE <<Head(s)>> \o replace(Tail(s), old, new)

\* the name parts the script appends; a part without ".nii" in it is kept as
\* one element
Suffix_K2HPO4    == <<"_K2HPO4", ".", "n", "i", "i">>
Suffix_PC_K2HPO4 == <<"_PC_K2HPO4", ".", "n", "i", "i">>
Suffix_Report    == <<"_PhanCalibParameters", ".", "t", "x", "t">>

ImagePaths == {DirDcm, DirDotNii, FileNii, FileNifti, FileTxt, FileHidden, FileInDot,
               FileAbs}
MaskPaths  == {DirDcm, FileNii, FileGz, MaskAbs}

(***************************************************************************)
(* Voxel grids.  A grid is the sequence of its NVox voxels in storage      *)
(* order; its dimensions are its length.                                   *)
(***************************************************************************)
NVox == 7

NumRods == 5

\* what readDCM / readNii can return for the subject image
Images ==
    { [i \in 1..NVox |-> 10 * i],
      [i \in 1..NVox |-> IF i % 2 = 0 THEN 0 ELSE 3 - i],
      [i \in 1..NVox |-> 0],
      [i \in 1..NVox |-> 7] }

\* what readDCM / readNii can return for the labelled mask
Masks ==
    { [i \in 1..NVox |-> IF i <= NumRods THEN i ELSE 0],
      [i \in 1..NVox |-> ((i - 1) % NumRods) + 1],
      [i \in 1..NVox |-> i % 4],
      [i \in 1..NVox |-> (i - 1) % 7] }

\* a threshold that keeps every value from the threshold upwards
maskThreshold_ByUpper(imageData, threshold_value) ==
    [i \in 1..Len(imageData) |-> IF imageData[i] >= threshold_value THEN 1 ELSE 0]

\* vtkImageThreshold: ThresholdBetween(v, v), in value 1, out value 0
maskThreshold(imageData, threshold_value) ==
    [i \in 1..Len(imageData) |->
        IF imageData[i] >= threshold_value /\ imageData[i] <= threshold_value
        THEN 1 ELSE 0]

\* vtkImageMask with NotMaskOff and masked output value 0
applyMask(imageData, maskData) ==
    [i \in 1..Len(imageData) |-> IF maskData[i] # 0 THEN imageData[i] ELSE 0]

\* the voxel loop of vtkImageAccumulate with IgnoreZeroOn: sum and count
RECURSIVE Accumulate(_, _, _)
Accumulate(imageData, sum, voxelCount) ==
    IF imageData = <<>> THEN [sum |-> sum, voxelCount |-> voxelCount]
    ELSE IF Head(imageData) = 0
         THEN Accumulate(Tail(imageData), sum, voxelCount)
         ELSE Accumulate(Tail(imageData), sum + Head(imageData), voxelCount + 1)

\* a mean taken with IgnoreZero off: every voxel of the grid is counted
imageHistogramMean_CountsZeros(imageData) ==
    LET acc == Accumulate(imageData, 0, 0)
    IN  <<Norm(acc.sum, Len(imageData)), Int2F(0), Int2F(0)>>

\* GetMean() of a one-component image: a triple; 0.0 when nothing was counted
imageHistogramMean(imageData) ==
    LET acc == Accumulate(imageData, 0, 0)
    IN  IF acc.voxelCount # 0
        THEN <<Norm(acc.sum, acc.voxelCount), Int2F(0), Int2F(0)>>
        ELSE <<Int2F(0), Int2F(0), Int2F(0)>>

(***************************************************************************)
(* The state of one run of the script                                      *)
(***************************************************************************)
VARIABLES
    pc,                        \* the statement block the script is at
    image,                     \* args.image_input
    mask,                      \* args.calibration_mask_input
    argv_h2o,                  \* values given to --phantom_h2o_densities
    argv_k2hpo4,               \* values given to --phantom_k2hpo4_densities
    scipy_rejects_constant_x,  \* the installed scipy raises on identical x
    phantom_h2o_densities,
    phantom_k2hpo4_densities,
    imageData,
    imageType,
    maskData,
    rod,                       \* rod_A .. rod_E, the binary masks, as far as computed
    rod_mean,                  \* rod_A_mean .. rod_E_mean, as far as computed
    phantom_HU,
    cali_parameters,
    calibrated_image,
    fileName,                  \* name of the calibrated image file
    written,                   \* the files written so far, in order
    diagnostic,                \* the error the run printed, if any
    exit_status,               \* process exit status, -1 while running
    launch_dir,                \* the working directory the script was started in
    cwd,                       \* the working directory of the process
    apply_stage,               \* the filter of applyPhantomParameters that runs
    voxel_done,                \* voxels the running filter has produced
    cast_out,                  \* output of vtkImageCast
    slope_out,                 \* output of the MultiplyByK filter
    pmma_caps,                 \* the PMMA cap images handed to combineImageData_*
    pmma_mat_id,               \* the material id handed to combineImageData_*
    combo_image,               \* the last sum of combineImageData_*, before final_thres
    final_image,               \* what combineImageData_* returned
    combined_by                \* which of combineImageData_* has run

vars == <<pc, image, mask, argv_h2o, argv_k2hpo4, scipy_rejects_constant_x,
          phantom_h2o_densities, phantom_k2hpo4_densities, imageData, imageType,
          maskData, rod_mean, phantom_HU, cali_parameters, calibrated_image,
          fileName, written, diagnostic, exit_status, rod, launch_dir, cwd,
          apply_stage, voxel_done, cast_out, slope_out,
          pmma_caps, pmma_mat_id, combo_image, final_image, combined_by>>

\* the buffers of the filters inside applyPhantomParameters
voxel_vars == <<apply_stage, voxel_done, cast_out, slope_out>>

\* the arguments and results of the combineImageData_* helpers
combine_vars == <<pmma_caps, pmma_mat_id, combo_image, final_image, combined_by>>

(***************************************************************************)
(* The calibration fit                                                     *)
(***************************************************************************)
Floats(s) == [i \in 1..Len(s) |-> Int2F(s[i])]

Fifths(s) == [i \in 1..Len(s) |-> Norm(s[i], 5)]

Thirds(s) == [i \in 1..Len(s) |-> Norm(s[i], 3)]

\* a slope that is set to 0 when the x values have no spread
RegressionSlope_ZeroWithoutSpread(ssxym, ssxm) ==
    IF IsZero(ssxm) THEN Int2F(0) ELSE FDiv(ssxym, ssxm)

\* linregress: slope = ssxym / ssxm
RegressionSlope(ssxym, ssxm) == FDiv(ssxym, ssxm)

\* an intercept that adds slope * mean(x)
RegressionIntercept_Plus(ymean, slope, xmean) == FAdd(ymean, FMul(slope, xmean))

\* linregress: intercept = ymean - slope * xmean
RegressionIntercept(ymean, slope, xmean) == FSub(ymean, FMul(slope, xmean))

\* a regression of x on y instead of y on x
linregress_XonY(x, y) ==
    LET xmean == FMean(x)
        ymean == FMean(y)
        ssym  == FMean([i \in 1..Len(y) |->
                          FMul(FSub(y[i], ymean), FSub(y[i], ymean))])
        ssxym == FMean([i \in 1..Len(x) |->
                          FMul(FSub(x[i], xmean), FSub(y[i], ymean))])
        slope == FDiv(ssxym, ssym)
    IN  [raised |-> FALSE, slope |-> slope,
         intercept |-> FSub(xmean, FMul(slope, ymean))]

\* scipy.stats.linregress(x, y): slope = cov(x, y) / var(x),
\* intercept = mean(y) - slope * mean(x).  With all x identical a scipy that
\* checks raises ValueError; one that does not divides 0.0 by 0.0
linregress(x, y) ==
    LET xmean == FMean(x)
        ymean == FMean(y)
        ssxm  == FMean([i \in 1..Len(x) |->
                          FMul(FSub(x[i], xmean), FSub(x[i], xmean))])
        ssxym == FMean([i \in 1..Len(x) |->
                          FMul(FSub(x[i], xmean), FSub(y[i], ymean))])
        slope == RegressionSlope(ssxym, ssxm)
        intercept == RegressionIntercept(ymean, slope, xmean)
    IN  IF scipy_rejects_constant_x /\ \A i \in 1..Len(x) : x[i] = x[1]
        THEN [raised |-> TRUE, slope |-> NaN, intercept |-> NaN]
        ELSE [raised |-> FALSE, slope |-> slope, intercept |-> intercept]

\* a subtraction that pairs rod i with the density of rod Len + 1 - i
YValues_Misaligned(HU, h2o_density) ==
    [i \in 1..Len(HU) |-> FSub(HU[i], h2o_density[Len(HU) + 1 - i])]

\* line 1095: np.subtract(phantom_HU, h2o_density)
YValues(HU, h2o_density) == [i \in 1..Len(HU) |-> FSub(HU[i], h2o_density[i])]

SigmaOffset == Norm(2174, 10000)

BetaOffset == Norm(9996, 10)

\* a fit that adds the slope offset instead of subtracting it
SigmaCT_AddsOffset(slope) == FAdd(slope, SigmaOffset)

\* line 1100
SigmaCT(slope) == FSub(slope, SigmaOffset)

\* line 1101
BetaCT(intercept) == FAdd(intercept, BetaOffset)

\* line 1104
CalibrationSlope(sigma_ct) == FDiv(Int2F(1), sigma_ct)

\* line 1105
CalibrationYint(beta_ct, sigma_ct) == FMul(Int2F(-1), FDiv(beta_ct, sigma_ct))

NoParameters ==
    [Y_Values |-> <<>>, X_Values |-> <<>>,
     Regression_Slope |-> NaN, Regression_Y_Intercept |-> NaN,
     Sigma_CT |-> NaN, Beta_CT |-> NaN,
     Calibration_Slope |-> NaN, Calibration_Y_Intercept |-> NaN]

\* phantomParameters, called with three lists of one length.  The result is
\* the returned dictionary, or raised = TRUE when linregress raised
phantomParameters(h2o_density, k2hpo4_density, HU) ==
    LET y_values == YValues(HU, h2o_density)
        x_values == k2hpo4_density
        regression_parameters == linregress(x_values, y_values)
        sigma_ct == SigmaCT(regression_parameters.slope)
        beta_ct  == BetaCT(regression_parameters.intercept)
        calibration_slope == CalibrationSlope(sigma_ct)
        calibration_yint  == CalibrationYint(beta_ct, sigma_ct)
    IN  IF regression_parameters.raised
        THEN [raised |-> TRUE, dict |-> NoParameters]
        ELSE [raised |-> FALSE,
              dict |-> [Y_Values |-> y_values,
                        X_Values |-> x_values,
                        Regression_Slope |-> regression_parameters.slope,
                        Regression_Y_Intercept |-> regression_parameters.intercept,
                        Sigma_CT |-> sigma_ct,
                        Beta_CT |-> beta_ct,
                        Calibration_Slope |-> calibration_slope,
                        Calibration_Y_Intercept |-> calibration_yint]]

\* a calibration that reads the regression line instead of the calibration line
applyPhantomParameters_RegressionLine(vtk_image, calibration_parameters) ==
    [i \in 1..Len(vtk_image) |->
        FAdd(FMul(Int2F(vtk_image[i]), calibration_parameters.Regression_Slope),
             calibration_parameters.Regression_Y_Intercept)]

\* a calibration that clamps negative results to 0
applyPhantomParameters_Clamped(vtk_image, calibration_parameters) ==
    [i \in 1..Len(vtk_image) |->
        LET v == FAdd(FMul(Int2F(vtk_image[i]), calibration_parameters.Calibration_Slope),
                      calibration_parameters.Calibration_Y_Intercept)
        IN  IF v.num < 0 THEN Int2F(0) ELSE v]

\* vtkImageCast to float, vtkImageMathematics MultiplyByK, then AddConstant
applyPhantomParameters(vtk_image, calibration_parameters) ==
    [i \in 1..Len(vtk_image) |->
        FAdd(FMul(Int2F(vtk_image[i]), calibration_parameters.Calibration_Slope),
             calibration_parameters.Calibration_Y_Intercept)]

(***************************************************************************)
(* The command line                                                        *)
(***************************************************************************)
\* value lists a caller can give to --phantom_h2o_densities
H2OArgs ==
    { Floats(<<3, 1, 4, 1, 5>>),
      Floats(<<10, 20, 30, 40, -1037>>),
      Fifths(<<5033, 5033, 5033, 5033, -402>>),
      Thirds(<<3037, 3171, 3311, 3359, 2770>>),
      Floats(<<3, 1, 4, 1>>),
      Floats(<<3, 1, 4, 1, 5, 9>>) }

\* value lists a caller can give to --phantom_k2hpo4_densities
K2HPO4Args ==
    { Floats(<<0, 1, 2, 3, 4>>),
      Floats(<<2, 2, 2, 2, 2>>),
      Floats(<<0, 0, 0, 0, 5000>>),
      Floats(<<0, 1, 2, 3>>),
      Floats(<<0, 1, 2, 3, 4, 5>>) }

NoDiagnostic == [kind |-> "none", path |-> <<>>]

\* the script calls none of the combineImageData_* helpers
NotCombined ==
    /\ pmma_caps = <<>>
    /\ pmma_mat_id = 0
    /\ combo_image = <<>>
    /\ final_image = <<>>
    /\ combined_by = "none"

Init ==
    /\ pc = "parse_args"
    /\ image \in ImagePaths
    /\ mask \in MaskPaths
    /\ argv_h2o \in H2OArgs
    /\ argv_k2hpo4 \in K2HPO4Args
    /\ scipy_rejects_constant_x \in BOOLEAN
    /\ phantom_h2o_densities = <<>>
    /\ phantom_k2hpo4_densities = <<>>
    /\ imageData = <<>>
    /\ imageType = 0
    /\ maskData = <<>>
    /\ rod_mean = <<>>
    /\ phantom_HU = <<>>
    /\ cali_parameters = NoParameters
    /\ calibrated_image = <<>>
    /\ fileName = <<>>
    /\ written = <<>>
    /\ diagnostic = NoDiagnostic
    /\ exit_status = -1
    /\ rod = <<>>
    /\ launch_dir \in LaunchDirs
    /\ cwd = launch_dir
    /\ apply_stage = "idle"
    /\ voxel_done = {}
    /\ cast_out = <<>>
    /\ slope_out = <<>>
    /\ NotCombined

(***************************************************************************)
(* The script, one action per statement block                              *)
(***************************************************************************)
\* an exit that reports every error with a non-zero status
Exit_ErrorStatus(status, kind, path) ==
    /\ pc' = "exited"
    /\ exit_status' = IF kind # "none" /\ status = 0 THEN 1 ELSE status
    /\ diagnostic' = [kind |-> kind, path |-> path]

\* sys.exit() or an uncaught exception: the run ends with a status, and an
\* error has printed its diagnostic
Exit(status, kind, path) ==
    /\ pc' = "exited"
    /\ exit_status' = status
    /\ diagnostic' = [kind |-> kind, path |-> path]

\* a parser that takes any number of values (nargs = '+')
ParseArgs_AnyCount ==
    /\ pc = "parse_args"
    /\ phantom_h2o_densities' = argv_h2o
    /\ phantom_k2hpo4_densities' = argv_k2hpo4
    /\ pc' = "read_image"
    /\ UNCHANGED <<image, mask, argv_h2o, argv_k2hpo4, scipy_rejects_constant_x,
                   imageData, imageType, maskData, rod_mean, phantom_HU,
                   cali_parameters, calibrated_image, written, diagnostic,
                   exit_status>>
    /\ UNCHANGED <<fileName, rod, launch_dir, cwd, voxel_vars, combine_vars>>

\* lines 39-60: argparse; nargs = 5 rejects any other number of values with a
\* usage error (exit status 2).  Every run of the model gives both options;
\* their defaults (lines 48, 51) are one more pair of five-value lists
ParseArgs ==
    /\ pc = "parse_args"
    /\ IF Len(argv_h2o) = NumRods /\ Len(argv_k2hpo4) = NumRods
       THEN /\ phantom_h2o_densities' = argv_h2o
            /\ phantom_k2hpo4_densities' = argv_k2hpo4
            /\ pc' = "read_image"
            /\ UNCHANGED <<diagnostic, exit_status>>
       ELSE /\ Exit(2, "usage", <<>>)
            /\ UNCHANGED <<phantom_h2o_densities, phantom_k2hpo4_densities>>
    /\ UNCHANGED <<image, mask, argv_h2o, argv_k2hpo4, scipy_rejects_constant_x,
                   imageData, imageType, maskData, rod_mean, phantom_HU,
                   cali_parameters, calibrated_image, written>>
    /\ UNCHANGED <<fileName, rod, launch_dir, cwd, voxel_vars, combine_vars>>

\* a reader block that gives the .nifti files an image type of their own
ReadImage_ThirdType ==
    /\ pc = "read_image"
    /\ IF isdir(image)
       THEN /\ imageData' \in Images
            /\ imageType' = 1
            /\ pc' = "read_mask"
            /\ UNCHANGED <<diagnostic, exit_status>>
       ELSE IF splitext_ext(image) = ExtNii \/ splitext_ext(image) = ExtNifti
       THEN /\ imageData' \in Images
            /\ imageType' = IF splitext_ext(image) = ExtNii THEN 2 ELSE 3
            /\ pc' = "read_mask"
            /\ UNCHANGED <<diagnostic, exit_status>>
       ELSE /\ Exit(0, "format", image)
            /\ UNCHANGED <<imageData, imageType>>
    /\ UNCHANGED <<image, mask, argv_h2o, argv_k2hpo4, scipy_rejects_constant_x,
                   phantom_h2o_densities, phantom_k2hpo4_densities, maskData,
                   rod_mean, phantom_HU, cali_parameters, calibrated_image, written>>
    /\ UNCHANGED <<fileName, rod, launch_dir, cwd, voxel_vars, combine_vars>>

\* lines 70-85: read the subject image with the reader its path selects
ReadImage ==
    /\ pc = "read_image"
    /\ IF isdir(image)
       THEN /\ imageData' \in Images
            /\ imageType' = 1
            /\ pc' = "read_mask"
            /\ UNCHANGED <<diagnostic, exit_status>>
       ELSE IF splitext_ext(image) = ExtNii \/ splitext_ext(image) = ExtNifti
       THEN /\ imageData' \in Images
            /\ imageType' = 2
            /\ pc' = "read_mask"
            /\ UNCHANGED <<diagnostic, exit_status>>
       ELSE /\ Exit(0, "format", image)
            /\ UNCHANGED <<imageData, imageType>>
    /\ UNCHANGED <<image, mask, argv_h2o, argv_k2hpo4, scipy_rejects_constant_x,
                   phantom_h2o_densities, phantom_k2hpo4_densities, maskData,
                   rod_mean, phantom_HU, cali_parameters, calibrated_image, written>>
    /\ UNCHANGED <<fileName, rod, launch_dir, cwd, voxel_vars, combine_vars>>

\* lines 88-101: read the mask
ReadMask ==
    /\ pc = "read_mask"
    /\ IF isdir(mask) \/ splitext_ext(mask) = ExtNii \/ splitext_ext(mask) = ExtNifti
       THEN /\ maskData' \in Masks
            /\ pc' = "extract_rods"
            /\ UNCHANGED <<diagnostic, exit_status>>
       ELSE /\ Exit(0, "format", mask)
            /\ UNCHANGED maskData
    /\ UNCHANGED <<image, mask, argv_h2o, argv_k2hpo4, scipy_rejects_constant_x,
                   phantom_h2o_densities, phantom_k2hpo4_densities, imageData,
                   imageType, rod_mean, phantom_HU, cali_parameters,
                   calibrated_image, written>>
    /\ UNCHANGED <<fileName, rod, launch_dir, cwd, voxel_vars, combine_vars>>

\* rod blocks that threshold the labels in the opposite order
RodMean_Reversed(label) ==
    imageHistogramMean(applyMask(imageData, maskThreshold(maskData, NumRods + 1 - label)))

\* the three statements of one rod block (lines 106-108, 111-113, ...)
RodMean(label) == imageHistogramMean(applyMask(imageData, maskThreshold(maskData, label)))

\* rod blocks that mask the subject image in place
ExtractRod_InPlace ==
    /\ pc = "extract_rods"
    /\ LET label == Len(rod_mean) + 1
       IN  /\ rod' = Append(rod, maskThreshold(maskData, label))
           /\ rod_mean' = Append(rod_mean, RodMean(label))
           /\ imageData' = applyMask(imageData, maskThreshold(maskData, label))
           /\ pc' = IF label = NumRods THEN "phantom_parameters" ELSE "extract_rods"
    /\ UNCHANGED <<image, mask, argv_h2o, argv_k2hpo4, scipy_rejects_constant_x,
                   phantom_h2o_densities, phantom_k2hpo4_densities,
                   imageType, maskData, phantom_HU, cali_parameters,
                   calibrated_image, written, diagnostic, exit_status>>
    /\ UNCHANGED <<fileName, launch_dir, cwd, voxel_vars, combine_vars>>

\* lines 105-128: the blocks for rods A to E, labels 1 to 5, in that order
ExtractRod ==
    /\ pc = "extract_rods"
    /\ LET label == Len(rod_mean) + 1
       IN  /\ rod' = Append(rod, maskThreshold(maskData, label))
           /\ rod_mean' = Append(rod_mean, RodMean(label))
           /\ pc' = IF label = NumRods THEN "phantom_parameters" ELSE "extract_rods"
    /\ UNCHANGED <<image, mask, argv_h2o, argv_k2hpo4, scipy_rejects_constant_x,
                   phantom_h2o_densities, phantom_k2hpo4_densities, imageData,
                   imageType, maskData, phantom_HU, cali_parameters,
                   calibrated_image, written, diagnostic, exit_status>>
    /\ UNCHANGED <<fileName, launch_dir, cwd, voxel_vars, combine_vars>>

\* lines 130-135: collect the rod means and fit; an exception raised in
\* phantomParameters ends the run with a traceback (exit status 1)
DetermineParameters ==
    /\ pc = "phantom_parameters"
    /\ LET HU == [i \in 1..Len(rod_mean) |-> rod_mean[i][1]]
           result == phantomParameters(phantom_h2o_densities,
                                       phantom_k2hpo4_densities, HU)
       IN  /\ phantom_HU' = HU
           /\ IF result.raised
              THEN /\ Exit(1, "traceback", <<>>)
                   /\ UNCHANGED cali_parameters
              ELSE /\ cali_parameters' = result.dict
                   /\ pc' = "apply_calibration"
                   /\ UNCHANGED <<diagnostic, exit_status>>
    /\ UNCHANGED <<image, mask, argv_h2o, argv_k2hpo4, scipy_rejects_constant_x,
                   phantom_h2o_densities, phantom_k2hpo4_densities, imageData,
                   imageType, maskData, rod_mean, calibrated_image, written>>
    /\ UNCHANGED <<fileName, rod, launch_dir, cwd, voxel_vars, combine_vars>>

\* a script that goes on to the output without applying the calibration
ApplyCalibration_Skipped ==
    /\ pc = "apply_calibration"
    /\ pc' = "write_image"
    /\ UNCHANGED <<image, mask, argv_h2o, argv_k2hpo4, scipy_rejects_constant_x,
                   phantom_h2o_densities, phantom_k2hpo4_densities, imageData,
                   imageType, maskData, rod_mean, phantom_HU, cali_parameters,
                   calibrated_image, written, diagnostic, exit_status>>
    /\ UNCHANGED <<fileName, rod, launch_dir, cwd, voxel_vars, combine_vars>>

\* lines 137-140
ApplyCalibration ==
    /\ pc = "apply_calibration"
    /\ calibrated_image' = applyPhantomParameters(imageData, cali_parameters)
    /\ pc' = "write_image"
    /\ UNCHANGED <<image, mask, argv_h2o, argv_k2hpo4, scipy_rejects_constant_x,
                   phantom_h2o_densities, phantom_k2hpo4_densities, imageData,
                   imageType, maskData, rod_mean, phantom_HU, cali_parameters,
                   written, diagnostic, exit_status>>
    /\ UNCHANGED <<fileName, rod, launch_dir, cwd, voxel_vars, combine_vars>>

\* os.path.abspath of a path without ".", ".." or doubled separators, which
\* normpath leaves as it is: a relative path is joined to the working
\* directory.  The script calls it once, at line 64, before any chdir
abspath(p) == IF isabs(p) THEN p ELSE launch_dir \o <<"/">> \o p

\* os.chdir(d): the working directory afterwards
chdir(d) == IF isabs(d) THEN d ELSE IF d = <<>> THEN cwd ELSE cwd \o <<"/">> \o d

\* lines 64-67
image_pathname == dirname(abspath(image))
image_basename == basename(image)
mask_pathname  == dirname(mask)
mask_basename  == basename(mask)

\* a writer that stays in the working directory it is called in
writeNii_NoChdir(data, name, output_directory) ==
    [fileName |-> name, directory |-> cwd, image |-> data, lines |-> <<>>]

\* writeNii: os.chdir(output_directory), then the NIFTI writer leaves the file
\* under its name in the working directory
writeNii(data, name, output_directory) ==
    [fileName |-> name, directory |-> chdir(output_directory),
     image |-> data, lines |-> <<>>]

(***************************************************************************)
(* str() of the values of the report.  str() of a string, a float or a     *)
(* list is one line of text.  str() of a numpy array is numpy's            *)
(* array2string: every element is printed at one common width and the row  *)
(* is wrapped so that no line is longer than 75 characters.  The digits    *)
(* are not kept, only how many there are and where the text is wrapped.    *)
(***************************************************************************)
\* numpy print options: precision and linewidth
PrintPrecision == 8

PrintLineWidth == 75

RECURSIVE Pow10(_)
Pow10(k) == IF k = 0 THEN 1 ELSE 10 * Pow10(k - 1)

\* the number of decimal digits of n >= 0
RECURSIVE IntDigits(_)
IntDigits(n) == IF n < 10 THEN 1 ELSE 1 + IntDigits(n \div 10)

\* k steps of long division of rem by den: the k digits q and the remainder r
RECURSIVE ShiftDigits(_, _, _)
ShiftDigits(rem, den, k) ==
    IF k = 0 THEN [q |-> 0, r |-> rem]
    ELSE LET p == ShiftDigits(rem, den, k - 1)
         IN  [q |-> 10 * p.q + ((10 * p.r) \div den), r |-> (10 * p.r) % den]

\* the first k fractional digits of rem/den, rounded
RoundedDigits(rem, den, k) ==
    LET p == ShiftDigits(rem, den, k)
    IN  p.q + (IF 2 * p.r >= den THEN 1 ELSE 0)

\* how many of the k digits of n are trailing zeros
RECURSIVE TrailingZeros(_, _)
TrailingZeros(n, k) ==
    IF k = 0 THEN 0
    ELSE IF n % 10 = 0 THEN 1 + TrailingZeros(n \div 10, k - 1) ELSE 0

\* dragon4_positional(x, precision = 8, unique, trim = '.'): the lengths of the
\* text before and after the decimal point
dragon4_positional(x) ==
    LET a  == Abs(x.num)
        d  == RoundedDigits(a % x.den, x.den, PrintPrecision)
        up == d = Pow10(PrintPrecision)
        ip == (a \div x.den) + (IF up THEN 1 ELSE 0)
        fd == IF up THEN 0 ELSE d
    IN  [left  |-> IntDigits(ip) + (IF x.num < 0 THEN 1 ELSE 0),
         right |-> PrintPrecision - TrailingZeros(fd, PrintPrecision)]

\* the least j with a * 10^j >= den, for 0 < a < den
RECURSIVE LeadingShift(_, _)
LeadingShift(a, den) == IF a >= den THEN 0 ELSE 1 + LeadingShift(10 * a, den)

\* dragon4_scientific(x, precision = 8, unique, trim = '.'): the lengths of the
\* mantissa's text before and after the decimal point
dragon4_scientific(x) ==
    LET a  == Abs(x.num)
        up == IF a >= x.den THEN 1 ELSE Pow10(LeadingShift(a, x.den))
        dn == IF a >= x.den THEN Pow10(IntDigits(a \div x.den) - 1) ELSE 1
        d  == RoundedDigits((a * up) % (x.den * dn), x.den * dn, PrintPrecision)
        fd == IF d = Pow10(PrintPrecision) THEN 0 ELSE d
    IN  [left  |-> 1 + (IF x.num < 0 THEN 1 ELSE 0),
         right |-> IF a = 0 THEN 0
                   ELSE PrintPrecision - TrailingZeros(fd, PrintPrecision)]

Max(S) == CHOOSE m \in S : \A n \in S : n <= m

\* numpy FloatingFormat.fillFormat for finite values: the common width of the
\* elements.  The exponent form is used when the largest magnitude is 1e8 or
\* more, the smallest non-zero one is below 1e-4, or their ratio is above 1000
FloatingFormat(a) ==
    LET nonzero == {i \in 1..Len(a) : a[i].num # 0}
        Larger(i, j) == Abs(a[i].num) * a[j].den >= Abs(a[j].num) * a[i].den
        imax == CHOOSE i \in nonzero : \A j \in nonzero : Larger(i, j)
        imin == CHOOSE i \in nonzero : \A j \in nonzero : Larger(j, i)
        ratio == FDiv(a[imax], a[imin])
        exp_format ==
            /\ nonzero # {}
            /\ \/ Abs(a[imax].num) \div a[imax].den >= Pow10(8)
               \/ Abs(a[imin].num) * Pow10(4) < a[imin].den
               \/ Abs(ratio.num) > 1000 * ratio.den
        strs == [i \in 1..Len(a) |->
                    IF exp_format THEN dragon4_scientific(a[i])
                    ELSE dragon4_positional(a[i])]
        pad_left  == Max({strs[i].left : i \in 1..Len(a)})
        pad_right == Max({strs[i].right : i \in 1..Len(a)})
    IN  IF exp_format THEN pad_left + 1 + pad_right + 4
        ELSE pad_left + 1 + pad_right

\* numpy _formatArray / _extendLine for one row: how often the row is wrapped
\* when n words of width w remain and the current line has `line` characters.
\* A word that does not fit on the line starts a new line, unless the line is
\* still empty; a separator follows every word
RECURSIVE extendLine(_, _, _)
extendLine(n, w, line) ==
    IF n = 0 THEN 0
    ELSE LET needs_wrap == line + w > PrintLineWidth - 1 /\ line > 1
         IN  (IF needs_wrap THEN 1 ELSE 0)
             + extendLine(n - 1, w, (IF needs_wrap THEN 1 ELSE line) + w + 1)

\* the line breaks inside str() of a one-dimensional float array
array2string_newlines(a) ==
    IF a = <<>> THEN 0 ELSE extendLine(Len(a), FloatingFormat(a), 1)

\* a Python object of the report: a numpy array, or a string, float or list
ndarray(a) == [type |-> "ndarray", value |-> a]

py(v) == [type |-> "object", value |-> v]

\* str() of an object: what is printed, and the line breaks inside the text
Str(o) ==
    [str |-> o.value,
     newlines |-> IF o.type = "ndarray" THEN array2string_newlines(o.value) ELSE 0]

\* writeTXTfile: os.chdir(output_directory), then one line per item of the
\* dictionary, in the order of items(), in a file of the working directory
writeTXTfile(input_dict, name, output_directory) ==
    [fileName |-> name, directory |-> chdir(output_directory),
     image |-> <<>>,
     lines |-> [i \in 1..Len(input_dict) |->
                  <<Str(py(input_dict[i][1])), "\t", Str(input_dict[i][2]), "\n">>]]

\* lines 157-160
OrgFileName ==
    IF imageType = 1 THEN image_basename ELSE replace(image_basename, ExtNii, <<>>)

\* lines 163-183: the OrderedDict, as the sequence of its items; every key is
\* assigned once, so the order of the items is the order of the assignments
ParametersDict(org_fileName) ==
    << <<"ID", py(org_fileName)>>,
       <<"Output File", py(fileName)>>,
       <<"Python Script", py(<<"sys.argv[0]">>)>>,
       <<"Version", py(Int2F(1))>>,
       <<"Date Created", py(<<"date.today()">>)>>,
       <<"Image Directory", py(image_pathname)>>,
       <<"Image", py(image_basename)>>,
       <<"Mask Directory", py(mask_pathname)>>,
       <<"Mask", py(mask_basename)>>,
       <<"Phantom H2O Densities", py(phantom_h2o_densities)>>,
       <<"Phantom K2HPO4 Densities", py(phantom_k2hpo4_densities)>>,
       <<"Phantom Density Rod HU", py(phantom_HU)>>,
       <<"Y Values", ndarray(cali_parameters.Y_Values)>>,
       <<"X Values", py(cali_parameters.X_Values)>>,
       <<"Sigma_CT", py(cali_parameters.Sigma_CT)>>,
       <<"Beta_CT", py(cali_parameters.Beta_CT)>>,
       <<"Regression Slope", py(cali_parameters.Regression_Slope)>>,
       <<"Regression Y-Intercept", py(cali_parameters.Regression_Y_Intercept)>>,
       <<"Calibration Slope", py(cali_parameters.Calibration_Slope)>>,
       <<"Calibration Y-Intercept", py(cali_parameters.Calibration_Y_Intercept)>> >>

\* lines 142-153: name and write the calibrated image
WriteImage ==
    /\ pc = "write_image"
    /\ IF imageType = 1 \/ imageType = 2
       THEN /\ fileName' = IF imageType = 1
                           THEN image_basename \o Suffix_K2HPO4
                           ELSE replace(image_basename, ExtNii, Suffix_PC_K2HPO4)
            /\ written' = Append(written,
                                 writeNii(calibrated_image, fileName', image_pathname))
            /\ cwd' = written'[Len(written')].directory
            /\ pc' = "write_report"
            /\ UNCHANGED <<diagnostic, exit_status>>
       ELSE /\ Exit(0, "format", image)
            /\ UNCHANGED <<fileName, written, cwd>>
    /\ UNCHANGED <<image, mask, argv_h2o, argv_k2hpo4, scipy_rejects_constant_x,
                   phantom_h2o_densities, phantom_k2hpo4_densities, imageData,
                   imageType, maskData, rod_mean, phantom_HU, cali_parameters,
                   calibrated_image>>
    /\ UNCHANGED <<rod, launch_dir, voxel_vars, combine_vars>>

\* a report step that raises before the file is opened
WriteReport_Raises ==
    /\ pc = "write_report"
    /\ Exit(1, "traceback", <<>>)
    /\ UNCHANGED <<image, mask, argv_h2o, argv_k2hpo4, scipy_rejects_constant_x,
                   phantom_h2o_densities, phantom_k2hpo4_densities, imageData,
                   imageType, maskData, rod_mean, phantom_HU, cali_parameters,
                   calibrated_image, written>>
    /\ UNCHANGED <<fileName, rod, launch_dir, cwd, voxel_vars, combine_vars>>

\* lines 155-188: collect the parameters and write the report
WriteReport ==
    /\ pc = "write_report"
    /\ LET org_fileName == OrgFileName
           parameters_dict == ParametersDict(org_fileName)
           txt_fileName == org_fileName \o Suffix_Report
       IN  written' = Append(written,
                             writeTXTfile(parameters_dict, txt_fileName, image_pathname))
    /\ cwd' = written'[Len(written')].directory
    /\ pc' = "end_of_script"
    /\ UNCHANGED <<image, mask, argv_h2o, argv_k2hpo4, scipy_rejects_constant_x,
                   phantom_h2o_densities, phantom_k2hpo4_densities, imageData,
                   imageType, maskData, rod_mean, phantom_HU, cali_parameters,
                   calibrated_image, diagnostic, exit_status>>
    /\ UNCHANGED <<fileName, rod, launch_dir, voxel_vars, combine_vars>>

\* lines 190-193
EndOfScript ==
    /\ pc = "end_of_script"
    /\ Exit(0, "none", <<>>)
    /\ UNCHANGED <<image, mask, argv_h2o, argv_k2hpo4, scipy_rejects_constant_x,
                   phantom_h2o_densities, phantom_k2hpo4_densities, imageData,
                   imageType, maskData, rod_mean, phantom_HU, cali_parameters,
                   calibrated_image, written>>
    /\ UNCHANGED <<fileName, rod, launch_dir, cwd, voxel_vars, combine_vars>>

Next ==
    \/ ParseArgs
    \/ ReadImage
    \/ ReadMask
    \/ ExtractRod
    \/ DetermineParameters
    \/ ApplyCalibration
    \/ WriteImage
    \/ WriteReport
    \/ EndOfScript

Spec == Init /\ [][Next]_vars

\* the interpreter keeps executing the script: a statement that can run, runs.
\* This is weak fairness of Next, <>[]ENABLED <<Next>>_vars => []<><<Next>>_vars,
\* with ENABLED <<Next>>_vars written out: every block runs when the script is
\* at it and moves the script on, so a step is possible exactly until the exit
FairSpec == Spec /\ ([]<>(pc = "exited") \/ []<><<Next>>_vars)

(***************************************************************************)
(* applyPhantomParameters voxel by voxel.  The three VTK filters run one    *)
(* after the other, each Update() returns when its whole output is         *)
(* written; inside a filter the threads of VTK take the voxels in an order  *)
(* the code does not fix.  A buffer under construction is the function     *)
(* from the voxels done so far to their values.                            *)
(***************************************************************************)
\* vtkImageCast, SetOutputScalarTypeToFloat, for one voxel
ImageCastToFloat(v) == Int2F(v)

\* vtkImageMathematics, SetOperationToMultiplyByK, for one voxel
MultiplyByK(v, K) == FMul(v, K)

\* an AddConstant that adds C once more for every voxel written before
AddConstant_Accumulating(v, C) ==
    FAdd(v, FMul(C, Int2F(1 + Cardinality(voxel_done))))

\* vtkImageMathematics, SetOperationToAddConstant, for one voxel
AddConstant(v, C) == FAdd(v, C)

AllVoxels == 1..Len(imageData)

\* the script stands at line 140, the cast filter is about to run
VoxelInit ==
    /\ pc = "apply_calibration"
    /\ image = DirDcm
    /\ mask = FileNii
    /\ argv_h2o \in {a \in H2OArgs : Len(a) = NumRods}
    /\ argv_k2hpo4 \in {a \in K2HPO4Args : Len(a) = NumRods}
    /\ scipy_rejects_constant_x = FALSE
    /\ phantom_h2o_densities = argv_h2o
    /\ phantom_k2hpo4_densities = argv_k2hpo4
    /\ imageData \in Images
    /\ imageType = 1
    /\ maskData \in Masks
    /\ rod_mean = [k \in 1..NumRods |-> RodMean(k)]
    /\ phantom_HU = [k \in 1..NumRods |-> rod_mean[k][1]]
    /\ cali_parameters = phantomParameters(phantom_h2o_densities,
                                           phantom_k2hpo4_densities, phantom_HU).dict
    /\ calibrated_image = <<>>
    /\ fileName = <<>>
    /\ written = <<>>
    /\ diagnostic = NoDiagnostic
    /\ exit_status = -1
    /\ rod = [k \in 1..NumRods |-> maskThreshold(maskData, k)]
    /\ launch_dir = <<"/", "w">>
    /\ cwd = launch_dir
    /\ apply_stage = "cast"
    /\ voxel_done = {}
    /\ cast_out = <<>>
    /\ slope_out = <<>>
    /\ NotCombined

\* what no filter touches
VoxelFrame ==
    UNCHANGED <<image, mask, argv_h2o, argv_k2hpo4, scipy_rejects_constant_x,
                phantom_h2o_densities, phantom_k2hpo4_densities, imageData,
                imageType, maskData, rod_mean, phantom_HU, cali_parameters,
                fileName, written, diagnostic, exit_status, rod, launch_dir, cwd,
                combine_vars>>

\* lines 147-150: a thread of the cast filter writes voxel i
CastVoxel(i) ==
    /\ apply_stage = "cast"
    /\ i \notin voxel_done
    /\ cast_out' = cast_out @@ (i :> ImageCastToFloat(imageData[i]))
    /\ IF voxel_done \cup {i} = AllVoxels
       THEN apply_stage' = "multiply" /\ voxel_done' = {}
       ELSE apply_stage' = "cast" /\ voxel_done' = voxel_done \cup {i}
    /\ UNCHANGED <<pc, slope_out, calibrated_image>>
    /\ VoxelFrame

\* lines 152-156: a thread of the MultiplyByK filter writes voxel i
MultiplyVoxel(i) ==
    /\ apply_stage = "multiply"
    /\ i \notin voxel_done
    /\ slope_out' = slope_out @@
                        (i :> MultiplyByK(cast_out[i], cali_parameters.Calibration_Slope))
    /\ IF voxel_done \cup {i} = AllVoxels
       THEN apply_stage' = "add" /\ voxel_done' = {}
       ELSE apply_stage' = "multiply" /\ voxel_done' = voxel_done \cup {i}
    /\ UNCHANGED <<pc, cast_out, calibrated_image>>
    /\ VoxelFrame

\* lines 158-164: a thread of the AddConstant filter writes voxel i; after the
\* last voxel the function returns its output
AddVoxel(i) ==
    /\ apply_stage = "add"
    /\ i \notin voxel_done
    /\ calibrated_image' = calibrated_image @@
            (i :> AddConstant(slope_out[i], cali_parameters.Calibration_Y_Intercept))
    /\ IF voxel_done \cup {i} = AllVoxels
       THEN apply_stage' = "done" /\ voxel_done' = {} /\ pc' = "write_image"
       ELSE apply_stage' = "add" /\ voxel_done' = voxel_done \cup {i} /\ pc' = pc
    /\ UNCHANGED <<cast_out, slope_out>>
    /\ VoxelFrame

VoxelNext ==
    \E i \in 1..NVox : CastVoxel(i) \/ MultiplyVoxel(i) \/ AddVoxel(i)

VoxelSpec == VoxelInit /\ [][VoxelNext]_vars

(***************************************************************************)
(* combineImageData_SF, combineImageData_SLS, combineImageData_VC.  The    *)
(* subject image occupies the voxels 1..Len(image); a cap image has an     *)
(* extent of its own: it occupies origin+1 .. origin+Len(voxels).          *)
(***************************************************************************)
\* the material ids a caller can pass
PmmaIds == {1, 2}

\* the cap images a caller can pass: inside the image, overhanging its end,
\* larger than the image on both sides, empty of material
CapImages ==
    { [origin |-> 0, voxels |-> <<1, 1, 0>>],
      [origin |-> NVox - 2, voxels |-> <<2, 2, 2, 2>>],
      [origin |-> -1, voxels |-> [i \in 1..(NVox + 2) |-> IF i % 3 = 0 THEN 0 ELSE 1]],
      [origin |-> 1, voxels |-> <<0, 0>>] }

\* vtkImageConstantPad: the input on the output extent 1..extent, the
\* constant where the input has no voxel, nothing outside the extent
ImageConstantPad(input, extent, constant) ==
    [i \in 1..extent |->
        IF i - input.origin \in 1..Len(input.voxels)
        THEN input.voxels[i - input.origin]
        ELSE constant]

\* vtkImageLogic, SetOperationToAnd: the true value where both inputs are
\* non-zero, 0 elsewhere
ImageLogicAnd(input1, input2, OutputTrueValue) ==
    [i \in 1..Len(input1) |->
        IF input1[i] # 0 /\ input2[i] # 0 THEN OutputTrueValue ELSE 0]

\* vtkImageMathematics, SetOperationToSubtract
ImageSubtract(input1, input2) ==
    [i \in 1..Len(input1) |-> input1[i] - input2[i]]

\* vtkImageMathematics, SetOperationToAdd
ImageAdd(input1, input2) ==
    [i \in 1..Len(input1) |-> input1[i] + input2[i]]

\* a final threshold set up with ThresholdByUpper(0)
final_thres_ByUpper(input) ==
    [i \in 1..Len(input) |-> IF input[i] >= 0 THEN 0 ELSE input[i]]

\* vtkImageThreshold: ThresholdByLower(0), ReplaceInOn, in value 0,
\* ReplaceOutOff
final_thres(input) ==
    [i \in 1..Len(input) |-> IF input[i] <= 0 THEN 0 ELSE input[i]]

\* one cap laid over an image: pad, logic, subtract, add
AddCap(pmma_id_pad, extent, onto, against, mat_id) ==
    LET pad   == ImageConstantPad(pmma_id_pad, extent, 0)
        logic == ImageLogicAnd(pad, against, mat_id)
        math  == ImageSubtract(pad, logic)
    IN  ImageAdd(math, onto)

\* combo_image2 of combineImageData_SF
combo_SF(imageIn, fh_pmma_id_pad, gt_pmma_id_pad, mat_id) ==
    LET combo == AddCap(fh_pmma_id_pad, Len(imageIn), imageIn, imageIn, mat_id)
    IN  AddCap(gt_pmma_id_pad, Len(imageIn), combo, imageIn, mat_id)

combineImageData_SF(imageIn, fh_pmma_id_pad, gt_pmma_id_pad, mat_id) ==
    final_thres(combo_SF(imageIn, fh_pmma_id_pad, gt_pmma_id_pad, mat_id))

\* combo_image of combineImageData_SLS
combo_SLS(imageIn, fh_pmma_id_pad, mat_id) ==
    AddCap(fh_pmma_id_pad, Len(imageIn), imageIn, imageIn, mat_id)

combineImageData_SLS(imageIn, fh_pmma_id_pad, mat_id) ==
    final_thres(combo_SLS(imageIn, fh_pmma_id_pad, mat_id))

\* combo_image2 of combineImageData_VC
combo_VC(imageIn, sup_pmma_id_pad, inf_pmma_id_pad, mat_id) ==
    LET combo == AddCap(sup_pmma_id_pad, Len(imageIn), imageIn, imageIn, mat_id)
    IN  AddCap(inf_pmma_id_pad, Len(imageIn), combo, imageIn, mat_id)

combineImageData_VC(imageIn, sup_pmma_id_pad, inf_pmma_id_pad, mat_id) ==
    final_thres(combo_VC(imageIn, sup_pmma_id_pad, inf_pmma_id_pad, mat_id))

\* a caller holds an image, two cap images and a material id
CombineInit ==
    /\ pc = "combine"
    /\ image = DirDcm
    /\ mask = FileNii
    /\ argv_h2o = <<>>
    /\ argv_k2hpo4 = <<>>
    /\ scipy_rejects_constant_x = FALSE
    /\ phantom_h2o_densities = <<>>
    /\ phantom_k2hpo4_densities = <<>>
    /\ imageData \in Images
    /\ imageType = 1
    /\ maskData = <<>>
    /\ rod_mean = <<>>
    /\ phantom_HU = <<>>
    /\ cali_parameters = NoParameters
    /\ calibrated_image = <<>>
    /\ fileName = <<>>
    /\ written = <<>>
    /\ diagnostic = NoDiagnostic
    /\ exit_status = -1
    /\ rod = <<>>
    /\ launch_dir = <<"/", "w">>
    /\ cwd = launch_dir
    /\ apply_stage = "idle"
    /\ voxel_done = {}
    /\ cast_out = <<>>
    /\ slope_out = <<>>
    /\ pmma_caps \in CapImages \X CapImages
    /\ pmma_mat_id \in PmmaIds
    /\ combo_image = <<>>
    /\ final_image = <<>>
    /\ combined_by = "none"

\* what no combineImageData_* touches
CombineFrame ==
    UNCHANGED <<pc, image, mask, argv_h2o, argv_k2hpo4, scipy_rejects_constant_x,
                phantom_h2o_densities, phantom_k2hpo4_densities, imageData,
                imageType, maskData, rod_mean, phantom_HU, cali_parameters,
                calibrated_image, fileName, written, diagnostic, exit_status,
                rod, launch_dir, cwd, voxel_vars, pmma_caps, pmma_mat_id>>

\* lines 305-378
CombineSF ==
    /\ combined_by = "none"
    /\ combo_image' = combo_SF(imageData, pmma_caps[1], pmma_caps[2], pmma_mat_id)
    /\ final_image' = combineImageData_SF(imageData, pmma_caps[1], pmma_caps[2],
                                          pmma_mat_id)
    /\ combined_by' = "SF"
    /\ CombineFrame

\* lines 380-428
CombineSLS ==
    /\ combined_by = "none"
    /\ combo_image' = combo_SLS(imageData, pmma_caps[1], pmma_mat_id)
    /\ final_image' = combineImageData_SLS(imageData, pmma_caps[1], pmma_mat_id)
    /\ combined_by' = "SLS"
    /\ CombineFrame

\* lines 430-503
CombineVC ==
    /\ combined_by = "none"
    /\ combo_image' = combo_VC(imageData, pmma_caps[1], pmma_caps[2], pmma_mat_id)
    /\ final_image' = combineImageData_VC(imageData, pmma_caps[1], pmma_caps[2],
                                          pmma_mat_id)
    /\ combined_by' = "VC"
    /\ CombineFrame

CombineNext == CombineSF \/ CombineSLS \/ CombineVC

CombineSpec == CombineInit /\ [][CombineNext]_vars

(***************************************************************************)
(* Properties                                                              *)
(***************************************************************************)
\* phantomParameters has returned its dictionary to the script
FitReturned == cali_parameters.X_Values # <<>>

\* the voxels that count for a rod: labelled with it and non-zero in the image
RodVoxels(label) ==
    {i \in 1..Len(maskData) : maskData[i] = label /\ imageData[i] # 0}

RECURSIVE SumOver(_, _)
SumOver(S, grid) ==
    IF S = {} THEN 0
    ELSE LET i == CHOOSE j \in S : TRUE
         IN  grid[i] + SumOver(S \ {i}, grid)

\* C1: whenever the fit was returned with a finite regression line and a
\* non-zero corrected slope, Sigma_CT = Regression Slope - 0.2174,
\* Beta_CT = Regression Y-Intercept + 999.6, Calibration Slope * Sigma_CT = 1
\* and Calibration Y-Intercept = -Beta_CT / Sigma_CT, for every input alike.
C1_FixedOffsetTransform ==
    LET p  == cali_parameters
        a  == p.Regression_Slope
        b  == p.Regression_Y_Intercept
        sg == p.Sigma_CT
        bt == p.Beta_CT
        cs == p.Calibration_Slope
        ci == p.Calibration_Y_Intercept
    IN  (FitReturned /\ IsFinite(a) /\ IsFinite(b) /\ ~IsZero(sg)) =>
            /\ IsFinite(sg) /\ FAdd(sg, Norm(2174, 10000)) = a
            /\ IsFinite(bt) /\ FSub(bt, Norm(9996, 10)) = b
            /\ IsFinite(cs) /\ FMul(cs, sg) = Int2F(1)
            /\ IsFinite(ci) /\ FMul(ci, sg) = FNeg(bt)

\* C1 witness: a fit was returned whose corrected slope is a non-zero fraction
C1_Witness ==
    /\ FitReturned
    /\ IsFinite(cali_parameters.Sigma_CT)
    /\ ~IsZero(cali_parameters.Sigma_CT)
    /\ cali_parameters.Sigma_CT.den > 1
    /\ cali_parameters.Calibration_Y_Intercept.num # 0

\* C2: the returned Y Values are HU - H2O element by element, the X Values are
\* the K2HPO4 densities, and when the x values are not all equal the returned
\* slope a and intercept b solve the normal equations of y on x: the
\* residuals y_i - (a*x_i + b) sum to zero and are orthogonal to x.
C2_LeastSquaresOfYOnX ==
    LET p == cali_parameters
        x == p.X_Values
        y == p.Y_Values
        a == p.Regression_Slope
        b == p.Regression_Y_Intercept
        r == [i \in 1..Len(x) |-> FSub(y[i], FAdd(FMul(a, x[i]), b))]
    IN  FitReturned =>
            /\ Len(x) = NumRods /\ Len(y) = NumRods
            /\ x = phantom_k2hpo4_densities
            /\ \A i \in 1..NumRods :
                   FAdd(y[i], phantom_h2o_densities[i]) = phantom_HU[i]
            /\ (\E i, j \in 1..NumRods : x[i] # x[j]) =>
                   /\ IsFinite(a) /\ IsFinite(b)
                   /\ FSum(r) = Int2F(0)
                   /\ FSum([i \in 1..NumRods |-> FMul(r[i], x[i])]) = Int2F(0)

\* C2 witness: a fit through points that are not on one line, with a slope
\* that is not zero
C2_Witness ==
    LET p == cali_parameters
    IN  /\ FitReturned
        /\ IsFinite(p.Regression_Slope) /\ p.Regression_Slope.num # 0
        /\ \E i \in 1..NumRods :
               FAdd(FMul(p.Regression_Slope, p.X_Values[i]), p.Regression_Y_Intercept)
                   # p.Y_Values[i]

\* C3: the calibrated grid has the dimensions of the subject image and holds
\* Calibration Slope * v + Calibration Y-Intercept at the position of every
\* voxel v; nothing is clamped or normalised.
C3_AffinePerVoxel ==
    LET cs == cali_parameters.Calibration_Slope
        ci == cali_parameters.Calibration_Y_Intercept
    IN  calibrated_image # <<>> =>
            /\ Len(calibrated_image) = Len(imageData)
            /\ \A i \in 1..Len(imageData) :
                   /\ calibrated_image[i] = FAdd(ci, FMul(cs, Int2F(imageData[i])))
                   /\ (IsFinite(cs) /\ IsFinite(ci)) =>
                          FSub(calibrated_image[i], ci) = FMul(Int2F(imageData[i]), cs)
            /\ (\A i \in 1..Len(imageData) : imageData[i] = imageData[1]) =>
                   \A i \in 1..Len(imageData) : calibrated_image[i] = calibrated_image[1]

\* C3 witness: a calibrated grid with a negative finite voxel
C3_Witness ==
    /\ calibrated_image # <<>>
    /\ \E i \in 1..Len(calibrated_image) :
           IsFinite(calibrated_image[i]) /\ calibrated_image[i].num < 0

\* C4: the mean computed for rod k is the sum of the image values over the
\* non-zero voxels labelled k, divided by the number of those voxels.
C4_MeanOverNonZeroRodVoxels ==
    \A k \in 1..Len(rod_mean) :
        RodVoxels(k) # {} =>
            /\ IsFinite(rod_mean[k][1])
            /\ rod_mean[k][1].num * Cardinality(RodVoxels(k))
                   = SumOver(RodVoxels(k), imageData) * rod_mean[k][1].den

\* C4 witness: a rod whose label covers a zero voxel and a non-zero voxel
C4_Witness ==
    \E k \in 1..Len(rod_mean) :
        /\ RodVoxels(k) # {}
        /\ \E i \in 1..Len(maskData) : maskData[i] = k /\ imageData[i] = 0

\* C5: a corrected slope of zero makes the fit fail: no dictionary is returned
\* with Sigma_CT = 0, none with an infinite or NaN calibration coefficient
\* comes from such a fit, and nothing is written from it.
C5_DegenerateFitFails ==
    (FitReturned /\ IsFinite(cali_parameters.Regression_Slope)) =>
        /\ ~IsZero(cali_parameters.Sigma_CT)
        /\ IsFinite(cali_parameters.Calibration_Slope)
        /\ IsFinite(cali_parameters.Calibration_Y_Intercept)

\* the last path component, and whether it ends in extension e after a stem
\* that is not made of dots alone
LastComponent(p) == SubSeq(p, rfind(p, "/") + 1, Len(p))

EndsInExtension(p, e) ==
    LET c == LastComponent(p)
        n == Len(c) - Len(e)
    IN  /\ n > 0
        /\ SubSeq(c, n + 1, Len(c)) = e
        /\ \E j \in 1..n : c[j] # "."

Unrecognized(p) ==
    /\ p \notin Directories
    /\ ~EndsInExtension(p, <<".", "n", "i", "i">>)
    /\ ~EndsInExtension(p, <<".", "n", "i", "f", "t", "i">>)

\* C6: with an image or mask path that is neither a directory nor a .nii or
\* .nifti file, the run never gets to a rod ROI, a fit, a calibrated image or
\* an output, and once the command line was accepted it ends with the
\* diagnostic that names the offending path (the image if both are bad).
C6_UnsupportedFormatAborts ==
    (Unrecognized(image) \/ Unrecognized(mask)) =>
        /\ pc \in {"parse_args", "read_image", "read_mask", "exited"}
        /\ rod_mean = <<>> /\ phantom_HU = <<>> /\ ~FitReturned
        /\ calibrated_image = <<>> /\ written = <<>>
        /\ Unrecognized(image) => imageData = <<>> /\ maskData = <<>>
        /\ maskData = <<>>
        /\ (pc = "exited" /\ exit_status # 2) =>
               diagnostic = [kind |-> "format",
                             path |-> IF Unrecognized(image) THEN image ELSE mask]

\* C6 witness: the run ended on the mask's format after the image was read
C6_Witness ==
    /\ pc = "exited"
    /\ diagnostic.kind = "format" /\ diagnostic.path = mask
    /\ imageData # <<>>
    /\ Unrecognized(mask)

\* C7: a rod label without a non-zero voxel makes the run fail: no mean is
\* produced for that rod, no fit is made and nothing is written.
C7_EmptyROIFails ==
    \A k \in 1..NumRods :
        (imageData # <<>> /\ maskData # <<>> /\ RodVoxels(k) = {}) =>
            /\ Len(rod_mean) < k
            /\ ~FitReturned
            /\ written = <<>>

\* C8: a command line with other than 5 values for either density option ends
\* the run with a usage error before an image is read or an output written,
\* and every fit that is returned was computed from three lists of 5 values.
C8_RodCountMismatchIsFatal ==
    /\ (Len(argv_h2o) # 5 \/ Len(argv_k2hpo4) # 5) =>
           /\ pc \in {"parse_args", "exited"}
           /\ imageData = <<>> /\ maskData = <<>> /\ rod_mean = <<>>
           /\ ~FitReturned /\ calibrated_image = <<>> /\ written = <<>>
           /\ pc = "exited" => exit_status = 2 /\ diagnostic.kind = "usage"
    /\ FitReturned =>
           /\ Len(phantom_h2o_densities) = 5
           /\ Len(phantom_k2hpo4_densities) = 5
           /\ Len(phantom_HU) = 5
           /\ Len(cali_parameters.X_Values) = 5
           /\ Len(cali_parameters.Y_Values) = 5

\* C8 witness: a run given six K2HPO4 values has ended with the usage error
C8_Witness ==
    /\ pc = "exited"
    /\ exit_status = 2
    /\ Len(argv_k2hpo4) = 6

\* C9: a returned fit has a finite Regression Slope only if the K2HPO4
\* densities hold two different values; with five equal x values no returned
\* fit has a finite slope.
C9_SlopeNeedsTwoDistinctX ==
    (FitReturned /\ IsFinite(cali_parameters.Regression_Slope)) =>
        \E i, j \in 1..NumRods :
            phantom_k2hpo4_densities[i] # phantom_k2hpo4_densities[j]

\* C9 witness: the fit was attempted on five equal x values and returned
C9_Witness ==
    /\ FitReturned
    /\ \A i \in 1..NumRods : phantom_k2hpo4_densities[i] = phantom_k2hpo4_densities[1]

\* C10: never more than five rod means; a run past the rod blocks has exactly
\* five; entry i of the measured-HU list is the mean of mask label i, and the
\* fit pairs it with entry i of the H2O list and entry i of the K2HPO4 list.
C10_RodOrderCorrespondence ==
    /\ Len(rod_mean) <= 5
    /\ (pc \notin {"parse_args", "read_image", "read_mask", "extract_rods", "exited"}
        \/ phantom_HU # <<>>) => Len(rod_mean) = 5
    /\ \A k \in 1..Len(rod_mean) :
           RodVoxels(k) # {} =>
               rod_mean[k][1] = Norm(SumOver(RodVoxels(k), imageData),
                                     Cardinality(RodVoxels(k)))
    /\ phantom_HU # <<>> =>
           /\ Len(phantom_HU) = 5
           /\ \A i \in 1..5 : phantom_HU[i] = rod_mean[i][1]
    /\ FitReturned =>
           \A i \in 1..5 :
               /\ cali_parameters.Y_Values[i]
                      = FSub(phantom_HU[i], phantom_h2o_densities[i])
               /\ cali_parameters.X_Values[i] = phantom_k2hpo4_densities[i]

\* C10 witness: a fit over five rod means that all differ
C10_Witness ==
    /\ FitReturned
    /\ \A i, j \in 1..5 : i # j => phantom_HU[i] # phantom_HU[j]

\* the value printed on the report line of a key
ReportValue(lines, key) ==
    LET i == CHOOSE j \in 1..Len(lines) : lines[j][1] = Str(py(key))
    IN  lines[i][3].str

\* both outputs are written: written[1] is the image file, written[2] the report
BothWritten == Len(written) = 2

\* C11: the calibration record is assigned once, by the fit, and never changes
\* afterwards; the report shows the record's eight values as they are, and the
\* written image is the subject image under the reported Calibration Slope and
\* Calibration Y-Intercept.
C11_RecordComputedOnceAndReported ==
    /\ [][cali_parameters' # cali_parameters =>
              /\ cali_parameters = NoParameters
              /\ pc = "phantom_parameters"]_vars
    /\ [](BothWritten =>
            LET L == written[2].lines
            IN  /\ ReportValue(L, "Y Values") = cali_parameters.Y_Values
                /\ ReportValue(L, "X Values") = cali_parameters.X_Values
                /\ ReportValue(L, "Sigma_CT") = cali_parameters.Sigma_CT
                /\ ReportValue(L, "Beta_CT") = cali_parameters.Beta_CT
                /\ ReportValue(L, "Regression Slope") = cali_parameters.Regression_Slope
                /\ ReportValue(L, "Regression Y-Intercept")
                       = cali_parameters.Regression_Y_Intercept
                /\ cali_parameters
                       = phantomParameters(phantom_h2o_densities,
                                           phantom_k2hpo4_densities, phantom_HU).dict
                /\ written[1].image =
                       [i \in 1..Len(imageData) |->
                           FAdd(FMul(ReportValue(L, "Calibration Slope"),
                                     Int2F(imageData[i])),
                                ReportValue(L, "Calibration Y-Intercept"))])

\* C11 witness: a report was written for a fit with a finite calibration line
C11_Witness ==
    /\ BothWritten
    /\ IsFinite(ReportValue(written[2].lines, "Calibration Slope"))
    /\ ReportValue(written[2].lines, "Calibration Slope").den > 1

\* the run reached "End of Script."
Completed == pc = "exited" /\ diagnostic.kind = "none" /\ exit_status = 0

\* C12: the steps of a run are a prefix of: read image, read mask, rod means
\* for labels 1..5 in that order, fit, apply, write image, write report.  A
\* step happens only after all steps before it, no step happens twice, a run
\* that reaches the end has done them all, and nothing is written before the
\* calibration was applied.
C12_PipelineOrder ==
    /\ [](/\ maskData # <<>> => imageData # <<>>
          /\ rod_mean # <<>> => maskData # <<>>
          /\ phantom_HU # <<>> => Len(rod_mean) = 5
          /\ FitReturned => phantom_HU # <<>>
          /\ calibrated_image # <<>> => FitReturned
          /\ written # <<>> =>
                 /\ calibrated_image # <<>>
                 /\ written[1].image = calibrated_image
          /\ Len(written) <= 2
          /\ BothWritten => written[2].lines # <<>> /\ written[2].image = <<>>
          /\ Completed =>
                 /\ imageData # <<>> /\ maskData # <<>> /\ Len(rod_mean) = 5
                 /\ FitReturned /\ calibrated_image # <<>> /\ BothWritten)
    /\ [][/\ imageData # <<>> => imageData' = imageData
          /\ maskData # <<>> => maskData' = maskData
          /\ \/ rod_mean' = rod_mean
             \/ /\ Len(rod_mean') = Len(rod_mean) + 1
                /\ SubSeq(rod_mean', 1, Len(rod_mean)) = rod_mean
                /\ phantom_HU = <<>>
                /\ LET k == Len(rod_mean')
                   IN  RodVoxels(k) # {} =>
                           rod_mean'[k][1] = Norm(SumOver(RodVoxels(k), imageData),
                                                  Cardinality(RodVoxels(k)))
          /\ phantom_HU # <<>> => phantom_HU' = phantom_HU
          /\ FitReturned => cali_parameters' = cali_parameters
          /\ calibrated_image # <<>> => calibrated_image' = calibrated_image
          /\ \/ written' = written
             \/ /\ Len(written') = Len(written) + 1
                /\ SubSeq(written', 1, Len(written)) = written]_vars

\* C12 witness: a run that did every step and reached the end
C12_Witness ==
    /\ Completed
    /\ BothWritten
    /\ \A i, j \in 1..5 : i # j => phantom_HU[i] # phantom_HU[j]

\* C13: every run ends, and when it has ended either it completed with the
\* calibrated image and the report both written, or it stopped on bad input
\* with nothing written; no run ends with one output only.
C13_TerminatesAllOrNothing ==
    /\ <>(pc = "exited")
    /\ [](pc = "exited" =>
              \/ /\ Completed
                 /\ BothWritten
                 /\ written[1].image # <<>>
                 /\ written[2].lines # <<>>
              \/ /\ diagnostic.kind \in {"usage", "format", "traceback"}
                 /\ written = <<>>)

\* C13 witness: a run that failed as late as a run can fail, in the fit, and
\* ended with nothing written
C13_Witness ==
    /\ pc = "exited"
    /\ diagnostic.kind = "traceback"
    /\ Len(rod_mean) = 5
    /\ written = <<>>

\* the keys of the report that hold the inputs and the values of the fit
CalibrationKeys ==
    <<"Phantom H2O Densities", "Phantom K2HPO4 Densities",
      "Phantom Density Rod HU", "Y Values", "X Values", "Sigma_CT", "Beta_CT",
      "Regression Slope", "Regression Y-Intercept", "Calibration Slope",
      "Calibration Y-Intercept">>

\* C14: the report of a completed run has one line of text per entry, the
\* key, one tab, the value and the end of the line, in the order the entries
\* were inserted; the inputs and the values of the fit are among them.
C14_ReportOneLinePerEntry ==
    BothWritten =>
        LET L == written[2].lines
            values == <<phantom_h2o_densities, phantom_k2hpo4_densities, phantom_HU,
                        cali_parameters.Y_Values, cali_parameters.X_Values,
                        cali_parameters.Sigma_CT, cali_parameters.Beta_CT,
                        cali_parameters.Regression_Slope,
                        cali_parameters.Regression_Y_Intercept,
                        cali_parameters.Calibration_Slope,
                        cali_parameters.Calibration_Y_Intercept>>
            first == Len(L) - Len(CalibrationKeys)
        IN  /\ first >= 0
            /\ \A i \in 1..Len(L) :
                   /\ Len(L[i]) = 4
                   /\ L[i][2] = "\t"
                   /\ L[i][4] = "\n"
                   /\ L[i][1].newlines = 0
                   /\ L[i][3].newlines = 0
            /\ \A i, j \in 1..Len(L) : i # j => L[i][1] # L[j][1]
            /\ \A k \in 1..Len(CalibrationKeys) :
                   /\ L[first + k][1].str = CalibrationKeys[k]
                   /\ L[first + k][3].str = values[k]

\* C15: for every returned fit and every voxel value v of the subject image,
\* (calibrated(v) - Calibration Y-Intercept) / Calibration Slope is v again,
\* and the Calibration Slope is not zero.
C15_InverseRecoversVoxel ==
    calibrated_image # <<>> =>
        /\ ~IsZero(cali_parameters.Calibration_Slope)
        /\ \A i \in 1..Len(imageData) :
               FDiv(FSub(calibrated_image[i], cali_parameters.Calibration_Y_Intercept),
                    cali_parameters.Calibration_Slope) = Int2F(imageData[i])

\* C19: for every returned fit and every voxel value v, the calibrated value
\* is (v - Beta_CT) / Sigma_CT, and calibrated(v) * Sigma_CT + Beta_CT is v.
C19_InverseOfCTModel ==
    calibrated_image # <<>> =>
        \A i \in 1..Len(imageData) :
            /\ calibrated_image[i] =
                   FDiv(FSub(Int2F(imageData[i]), cali_parameters.Beta_CT),
                        cali_parameters.Sigma_CT)
            /\ FAdd(FMul(calibrated_image[i], cali_parameters.Sigma_CT),
                    cali_parameters.Beta_CT) = Int2F(imageData[i])

\* the residual of rod i under the reported regression line
Residual(i) ==
    FSub(FSub(phantom_HU[i], phantom_h2o_densities[i]),
         FAdd(FMul(cali_parameters.Regression_Slope, phantom_k2hpo4_densities[i]),
              cali_parameters.Regression_Y_Intercept))

\* the five points (K2HPO4_i, HU_i - H2O_i) lie on one line
Collinear ==
    LET x == phantom_k2hpo4_densities
        y == [i \in 1..5 |-> FSub(phantom_HU[i], phantom_h2o_densities[i])]
    IN  \A i, j, k \in 1..5 :
            FMul(FSub(x[j], x[i]), FSub(y[k], y[i]))
                = FMul(FSub(x[k], x[i]), FSub(y[j], y[i]))

TwoDistinctX ==
    \E i, j \in 1..5 : phantom_k2hpo4_densities[i] # phantom_k2hpo4_densities[j]

\* C16: for five rods with at least two distinct K2HPO4 values the residuals
\* HU_i - H2O_i - (a * K2HPO4_i + b) of the fitted line sum to zero, and they
\* are all zero exactly when the five points are collinear.
C16_ResidualsSumToZero ==
    FitReturned /\ TwoDistinctX =>
        /\ FSum([i \in 1..5 |-> Residual(i)]) = Int2F(0)
        /\ (\A i \in 1..5 : Residual(i) = Int2F(0)) <=> Collinear

\* C16 witness: a fit through five collinear points with a slope that is not 0
C16_Witness ==
    /\ FitReturned
    /\ TwoDistinctX
    /\ Collinear
    /\ ~IsZero(cali_parameters.Regression_Slope)
    /\ \A i \in 1..5 : Residual(i) = Int2F(0)

\* the value of one output voxel, from the input voxel at its position and the
\* two coefficients alone
CalibratedVoxel(v, slope, yint) == FAdd(FMul(slope, Int2F(v)), yint)

\* C18: whatever the order in which the voxels are taken inside the filters,
\* every output voxel, once written, is the value determined by the input
\* voxel at the same position and the two calibration coefficients, a step
\* never alters a voxel written before, and the finished grid is the one the
\* calibration defines.
C18_VoxelOrderIrrelevant ==
    /\ [](\A i \in DOMAIN calibrated_image :
              calibrated_image[i] =
                  CalibratedVoxel(imageData[i], cali_parameters.Calibration_Slope,
                                  cali_parameters.Calibration_Y_Intercept))
    /\ [](apply_stage = "done" =>
              /\ DOMAIN calibrated_image = 1..Len(imageData)
              /\ calibrated_image = applyPhantomParameters(imageData, cali_parameters))
    /\ [][\A i \in DOMAIN calibrated_image :
              /\ i \in DOMAIN calibrated_image'
              /\ calibrated_image'[i] = calibrated_image[i]]_vars

\* C18 witness: the last voxel of the output is written before any other, for
\* an image whose voxels differ and a finite calibration line
C18_Witness ==
    /\ apply_stage = "add"
    /\ voxel_done = {Len(imageData)}
    /\ imageData[1] # imageData[Len(imageData)]
    /\ IsFinite(calibrated_image[Len(imageData)])

\* reorderings of the five rods: a swap, a rotation and the reversal
RodPermutations == { <<2, 1, 3, 4, 5>>, <<2, 3, 4, 5, 1>>, <<5, 4, 3, 2, 1>> }

Permute(s, p) == [i \in 1..Len(p) |-> s[p[i]]]

\* the four coefficients of a fit
Coefficients(d) ==
    <<d.Regression_Slope, d.Regression_Y_Intercept,
      d.Calibration_Slope, d.Calibration_Y_Intercept>>

\* C20: the same reordering of the H2O, K2HPO4 and HU lists leaves the
\* regression line and the calibration line unchanged; a reordering of one
\* list alone is not detected, phantomParameters still returns a fit.  Stated
\* where phantomParameters has just returned.
C20_CommonPermutationInvariant ==
    FitReturned /\ pc = "apply_calibration" =>
        \A p \in RodPermutations :
            LET h2o == phantom_h2o_densities
                k2hpo4 == phantom_k2hpo4_densities
                HU == phantom_HU
                common == phantomParameters(Permute(h2o, p), Permute(k2hpo4, p),
                                            Permute(HU, p))
            IN  /\ ~common.raised
                /\ Coefficients(common.dict) = Coefficients(cali_parameters)
                /\ ~phantomParameters(Permute(h2o, p), k2hpo4, HU).raised
                /\ ~phantomParameters(h2o, Permute(k2hpo4, p), HU).raised
                /\ ~phantomParameters(h2o, k2hpo4, Permute(HU, p)).raised

\* C20 witness: a fit for which the reordering of the HU list alone is
\* returned with another regression line
C20_Witness ==
    /\ FitReturned
    /\ \E p \in RodPermutations :
           LET alone == phantomParameters(phantom_h2o_densities,
                                          phantom_k2hpo4_densities,
                                          Permute(phantom_HU, p))
           IN  /\ ~alone.raised
               /\ IsFinite(alone.dict.Regression_Slope)
               /\ alone.dict.Regression_Slope # cali_parameters.Regression_Slope

\* C21: for every accepted image input the calibrated image is written under
\* a name that differs from the input image's base name.
C21_OutputNameDiffersFromInput ==
    written # <<>> => written[1].fileName # basename(image)

\* s ends with the characters of tail
EndsWith(s, tail) ==
    Len(s) >= Len(tail) /\ SubSeq(s, Len(s) - Len(tail) + 1, Len(s)) = tail

\* C22: for a DICOM directory the image is named <basename>_K2HPO4.nii and the
\* report <basename>_PhanCalibParameters.txt; for a NIFTI file <stem>.nii the
\* image is named <stem>_PC_K2HPO4.nii and the report
\* <stem>_PhanCalibParameters.txt; the image name always ends in .nii.
C22_OutputNamesFromBasename ==
    BothWritten =>
        LET base == basename(image)
            stem == SubSeq(base, 1, Len(base) - Len(ExtNii))
        IN  /\ imageType = 1 =>
                  /\ written[1].fileName = base \o Suffix_K2HPO4
                  /\ written[2].fileName = base \o Suffix_Report
            /\ imageType = 2 /\ EndsWith(base, ExtNii) =>
                  /\ written[1].fileName = stem \o Suffix_PC_K2HPO4
                  /\ written[2].fileName = stem \o Suffix_Report
            /\ EndsWith(written[1].fileName, ExtNii)

\* C23: the binary image maskThreshold returns for label k has the grid of
\* the mask, 1 where the mask voxel equals k and 0 everywhere else, for the
\* rods extracted so far and for any other threshold value.
C23_ThresholdIsolatesLabel ==
    maskData # <<>> =>
        /\ \A k \in 1..Len(rod) :
               /\ Len(rod[k]) = Len(maskData)
               /\ \A i \in 1..Len(maskData) :
                      /\ maskData[i] = k => rod[k][i] = 1
                      /\ maskData[i] < k => rod[k][i] = 0
                      /\ maskData[i] > k => rod[k][i] = 0
        /\ \A k \in 0..(NumRods + 2) :
               LET out == maskThreshold(maskData, k)
               IN  /\ Len(out) = Len(maskData)
                   /\ \A i \in 1..Len(maskData) :
                          (out[i] = 1 /\ maskData[i] = k) \/ (out[i] = 0 /\ maskData[i] # k)

\* C23 witness: rod C is extracted from a mask that has voxels of label 3,
\* voxels below it and voxels above it
C23_Witness ==
    /\ Len(rod) >= 3
    /\ \E i, j, l \in 1..Len(maskData) :
           /\ maskData[i] = 3 /\ rod[3][i] = 1
           /\ maskData[j] < 3 /\ rod[3][j] = 0
           /\ maskData[l] > 3 /\ rod[3][l] = 0

\* C24: the binary masks of two different labels are never both non-zero at
\* one voxel position, so no image voxel is counted for two rods.
C24_RodROIsDisjoint ==
    \A k, l \in 1..Len(rod) :
        k # l => \A i \in 1..Len(maskData) : rod[k][i] = 0 \/ rod[l][i] = 0

\* C24 witness: all five ROIs are extracted and each of them holds a voxel
C24_Witness ==
    /\ Len(rod) = NumRods
    /\ \A k \in 1..NumRods : \E i \in 1..Len(maskData) : rod[k][i] # 0

\* C25: the extraction of the rod ROIs and the calibration leave the subject
\* image and the mask as the readers returned them; every ROI and the
\* calibrated grid are computed from these grids, and the calibrated grid is
\* held beside the subject image, with the same dimensions.
C25_InputsLeftUnchanged ==
    /\ [][/\ imageData # <<>> => imageData' = imageData
          /\ maskData # <<>> => maskData' = maskData]_vars
    /\ [](/\ \A k \in 1..Len(rod) :
                 /\ rod[k] = [i \in 1..Len(maskData) |-> IF maskData[i] = k THEN 1 ELSE 0]
                 /\ RodVoxels(k) # {} =>
                        rod_mean[k][1] = Norm(SumOver(RodVoxels(k), imageData),
                                              Cardinality(RodVoxels(k)))
          /\ calibrated_image # <<>> =>
                 /\ imageData \in Images
                 /\ Len(calibrated_image) = Len(imageData)
                 /\ \A i \in 1..Len(imageData) :
                        calibrated_image[i] =
                            CalibratedVoxel(imageData[i],
                                            cali_parameters.Calibration_Slope,
                                            cali_parameters.Calibration_Y_Intercept))

\* C25 witness: the calibration was applied to an image that has non-zero
\* voxels outside every rod, which a masking in place would have erased
C25_Witness ==
    /\ calibrated_image # <<>>
    /\ \E i \in 1..Len(imageData) : imageData[i] # 0 /\ maskData[i] = 0

\* the script is at the naming of the outputs or past it
AtOutputNaming == pc \in {"write_image", "write_report", "end_of_script"} \/ written # <<>>

\* C26: whenever the script reaches the naming of the outputs, imageType is 1
\* for a directory (whatever its name ends in) and 2 for a file with the
\* extension .nii or .nifti; the 'format not recognized' exit of that step
\* never happens, and fileName and org_fileName are defined.
C26_ImageTypeKnownAtOutput ==
    /\ [](AtOutputNaming =>
              /\ imageType \in {1, 2}
              /\ imageType = 1 <=> image \in Directories
              /\ imageType = 2 <=>
                     /\ image \notin Directories
                     /\ \/ EndsInExtension(image, <<".", "n", "i", "i">>)
                        \/ EndsInExtension(image, <<".", "n", "i", "f", "t", "i">>)
              /\ pc # "write_image" => fileName # <<>> /\ written[1].fileName = fileName
              /\ Len(written) = 2 => written[2].lines[1][3].str \in {basename(image),
                                         SubSeq(basename(image), 1, Len(basename(image)) - 4)})
    /\ [][pc = "write_image" => pc' # "exited"]_vars

\* C26 witness: the outputs of a directory whose name ends in .nii are named
C26_Witness ==
    /\ pc = "write_report"
    /\ image \in Directories
    /\ EndsWith(image, <<".", "n", "i", "i">>)
    /\ imageType = 1
    /\ fileName # <<>>

\* C27: a run that stopped on an unrecognized image or mask format has the
\* exit status 0 of a completed run; it differs from one by the printed
\* diagnostic, which names the path, and by having written no file.
C27_FormatAbortExitsZero ==
    pc = "exited" =>
        /\ diagnostic.kind = "format" =>
               /\ exit_status = 0
               /\ diagnostic.path \in {image, mask}
               /\ written = <<>>
        /\ Completed => exit_status = 0 /\ diagnostic = NoDiagnostic /\ BothWritten

\* C27 witness: the image was read and the run stopped on the mask's format
C27_Witness ==
    /\ pc = "exited"
    /\ diagnostic = [kind |-> "format", path |-> mask]
    /\ imageData # <<>>
    /\ exit_status = 0

\* the directory that holds the input image: the image path, taken from the
\* launch directory when it is relative, without its last component
ContainingDirectory ==
    LET absolute == IF image[1] = "/" THEN image ELSE launch_dir \o <<"/">> \o image
    IN  SubSeq(absolute, 1, Len(absolute) - Len(LastComponent(image)) - 1)

\* C28: every output is written into the directory that holds the input
\* image, wherever the script was started and wherever the mask lies; the
\* working directory is the launch directory until the first output and that
\* directory from then on.
C28_OutputsBesideImage ==
    /\ [](/\ \A k \in 1..Len(written) : written[k].directory = ContainingDirectory
          /\ written = <<>> => cwd = launch_dir
          /\ written # <<>> => cwd = ContainingDirectory)
    /\ [][cwd' # cwd => Len(written') = Len(written) + 1]_vars

\* C28 witness: both outputs lie beside an image given by an absolute path, the
\* mask lies in another directory and the script was started in a third one
C28_Witness ==
    /\ BothWritten
    /\ image = FileAbs
    /\ mask = MaskAbs
    /\ cwd = <<"/", "p">>
    /\ cwd # launch_dir

\* C29: the image a combineImageData_* helper returns has no negative voxel:
\* where the combined image is below 0 the result is 0, where it is above 0
\* the result is the combined value, and the result has the extent of the
\* original image.
C29_CombinedImageNonNegative ==
    combined_by # "none" =>
        /\ Len(final_image) = Len(imageData)
        /\ Len(combo_image) = Len(imageData)
        /\ \A i \in 1..Len(final_image) :
              /\ final_image[i] >= 0
              /\ combo_image[i] < 0 => final_image[i] = 0
              /\ combo_image[i] > 0 => final_image[i] = combo_image[i]

\* a helper has returned an image in which one combined voxel was below 0,
\* one above 0, and a cap reached beyond the extent of the original image
C29_Witness ==
    /\ combined_by # "none"
    /\ \E i \in 1..Len(combo_image) : combo_image[i] < 0 /\ final_image[i] = 0
    /\ \E i \in 1..Len(combo_image) :
          combo_image[i] > 0 /\ combo_image[i] # imageData[i]
    /\ \E k \in 1..Len(pmma_caps) :
          pmma_caps[k].origin + Len(pmma_caps[k].voxels) > Len(imageData)

====
